---- MODULE Spec2Model ----
(***************************************************************************)
(* Model of the backtesting engine (internal/backtesting/backtesting.go)   *)
(* driven by the moving-average crossover strategy (the strategy package   *)
(* whose current text is the second half of internal/database/database.go).*)
(*                                                                         *)
(* float64 values are modelled as exact rationals n/d extended with the    *)
(* IEEE-754 specials: d = 0 encodes +Inf (n = 1), -Inf (n = -1) and NaN    *)
(* (n = 0).  Rounding and the sign of zero are not modelled.               *)
(***************************************************************************)
EXTENDS Integers, Sequences, FiniteSets, TLC

\* ------------------------------------------------------------------------
\* Bounds of the model
\* ------------------------------------------------------------------------

\* longest price series replayed by one run
MaxLen == 4

\* ------------------------------------------------------------------------
\* float64 arithmetic
\* ------------------------------------------------------------------------

Abs(x) == IF x < 0 THEN -x ELSE x

Sgn(x) == IF x < 0 THEN -1 ELSE IF x > 0 THEN 1 ELSE 0

RECURSIVE GCD(_, _)
GCD(a, b) == IF b = 0 THEN a ELSE GCD(b, a % b)

\* the float64 value n/d in lowest terms (d = 0: the special of sign n)
Norm(n, d) ==
    IF d = 0 THEN [n |-> Sgn(n), d |-> 0]
    ELSE LET g == GCD(Abs(n), Abs(d))
         IN  [n |-> (Sgn(d) * n) \div g, d |-> Abs(d) \div g]

F(i) == [n |-> i, d |-> 1]

NaN == [n |-> 0, d |-> 0]

PosInf == [n |-> 1, d |-> 0]

NegInf == [n |-> -1, d |-> 0]

IsNaN(a) == a.d = 0 /\ a.n = 0

IsInf(a) == a.d = 0 /\ a.n # 0

IsFinite(a) == a.d # 0

FMul(a, b) == Norm(a.n * b.n, a.d * b.d)

FAdd(a, b) ==
    IF IsNaN(a) \/ IsNaN(b) THEN NaN
    ELSE IF IsInf(a) /\ IsInf(b) THEN (IF a.n = b.n THEN a ELSE NaN)
    ELSE IF IsInf(a) THEN a
    ELSE IF IsInf(b) THEN b
    ELSE Norm(a.n * b.d + b.n * a.d, a.d * b.d)

FNeg(a) == [n |-> -a.n, d |-> a.d]

FSub(a, b) == FAdd(a, FNeg(b))

\* 1/b : 1/0 = +Inf, 1/Inf = 0, 1/NaN = NaN
FInv(b) ==
    IF IsNaN(b) THEN NaN
    ELSE IF IsInf(b) THEN F(0)
    ELSE IF b.n = 0 THEN PosInf
    ELSE Norm(Sgn(b.n) * b.d, Abs(b.n))

FDiv(a, b) ==
    IF IsNaN(a) \/ IsNaN(b) THEN NaN
    ELSE IF IsInf(a) /\ IsInf(b) THEN NaN
    ELSE IF (~IsInf(a)) /\ a.n = 0 /\ (~IsInf(b)) /\ b.n = 0 THEN NaN
    ELSE FMul(a, FInv(b))

\* a > b ; false as soon as one side is NaN
FGt(a, b) ==
    IF IsNaN(a) \/ IsNaN(b) THEN FALSE
    ELSE IF IsInf(a) /\ IsInf(b) THEN a.n > b.n
    ELSE IF IsInf(a) THEN a.n > 0
    ELSE IF IsInf(b) THEN b.n < 0
    ELSE a.n * b.d > b.n * a.d

FLt(a, b) == FGt(b, a)

\* a == b ; NaN is equal to nothing
FEq(a, b) == (~IsNaN(a)) /\ (~IsNaN(b)) /\ a = b

\* ------------------------------------------------------------------------
\* Price texts and strconv.ParseFloat
\* ------------------------------------------------------------------------

\* a price text (MarketData.StckPrpr) is a sequence of characters
DigitVal(ch) ==
    CASE ch = "0" -> 0 [] ch = "1" -> 1 [] ch = "2" -> 2 [] ch = "3" -> 3
      [] ch = "4" -> 4 [] ch = "5" -> 5 [] ch = "6" -> 6 [] ch = "7" -> 7
      [] ch = "8" -> 8 [] ch = "9" -> 9 [] OTHER -> -1

IsDigits(s) == Len(s) > 0 /\ \A i \in 1..Len(s) : DigitVal(s[i]) >= 0

RECURSIVE DigitsVal(_)
DigitsVal(s) ==
    IF Len(s) = 0 THEN 0
    ELSE 10 * DigitsVal(SubSeq(s, 1, Len(s) - 1)) + DigitVal(s[Len(s)])

\* strconv.ParseFloat(text, 64): optional sign, decimal digits, or one of
\* the words NaN / Inf; anything else (the empty text included) is an error
ParseFloat(text) ==
    LET neg  == Len(text) > 0 /\ text[1] = "-"
        sgnd == Len(text) > 0 /\ text[1] \in {"-", "+"}
        body == IF sgnd THEN Tail(text) ELSE text
    IN  IF body = <<"N", "a", "N">> /\ ~sgnd THEN [ok |-> TRUE, v |-> NaN]
        ELSE IF body = <<"I", "n", "f">>
             THEN [ok |-> TRUE, v |-> IF neg THEN NegInf ELSE PosInf]
        ELSE IF IsDigits(body)
             THEN [ok |-> TRUE,
                   v  |-> F(IF neg THEN -DigitsVal(body) ELSE DigitsVal(body))]
        ELSE [ok |-> FALSE, v |-> F(0)]

\* func parsePrice(priceStr string) (float64, error)
parsePrice(priceStr) ==
    LET r == ParseFloat(priceStr)
    IN  IF ~r.ok THEN [err |-> TRUE, price |-> F(0)]
        ELSE [err |-> FALSE, price |-> r.v]

\* ------------------------------------------------------------------------
\* Strategy: MovingAverage
\* ------------------------------------------------------------------------

BuySignal == "buy"

SellSignal == "sell"

HoldSignal == "hold"

\* func NewMovingAverage(config models.StrategyConfig) *MovingAverage
NewMovingAverage(config) ==
    [ShortPeriod  |-> config.ShortPeriod,
     LongPeriod   |-> config.LongPeriod,
     Threshold    |-> config.Threshold,
     ShortSMA     |-> F(0),
     LongSMA      |-> F(0),
     PriceHistory |-> <<>>]

\* sum of h[from..Len(h)] accumulated left to right from 0.0
RECURSIVE SumFrom(_, _, _)
SumFrom(h, i, acc) ==
    IF i > Len(h) THEN acc ELSE SumFrom(h, i + 1, FAdd(acc, h[i]))

\* calculateSMA that averages the oldest prices of the window
calculateSMA_Head(h, period) ==
    IF Len(h) < period THEN F(0)
    ELSE FDiv(SumFrom(SubSeq(h, 1, period), 1, F(0)), F(period))

\* func (ma *MovingAverage) calculateSMA(period int) float64
calculateSMA(h, period) ==
    IF Len(h) < period THEN F(0)
    ELSE FDiv(SumFrom(h, Len(h) - period + 1, F(0)), F(period))

\* func (ma *MovingAverage) updateSMA()
updateSMA(m) ==
    [m EXCEPT !.ShortSMA = calculateSMA(m.PriceHistory, m.ShortPeriod),
              !.LongSMA  = calculateSMA(m.PriceHistory, m.LongPeriod)]

\* Analyze that decides one price before the window is full
Analyze_EarlyDecision(m, text) ==
    LET r == ParseFloat(text)
    IN  IF ~r.ok THEN [ma |-> m, Type |-> HoldSignal]
        ELSE
        LET app  == Append(m.PriceHistory, r.v)
            hist == IF Len(app) > m.LongPeriod THEN Tail(app) ELSE app
            m1   == [m EXCEPT !.PriceHistory = hist]
        IN  IF Len(hist) < m.LongPeriod - 1
            THEN [ma |-> m1, Type |-> HoldSignal]
            ELSE
            LET m2 == updateSMA(m1)
            IN  IF FGt(m2.ShortSMA,
                       FMul(m2.LongSMA, FAdd(F(1), m2.Threshold)))
                THEN [ma |-> m2, Type |-> BuySignal]
                ELSE IF FLt(m2.ShortSMA,
                            FMul(m2.LongSMA, FSub(F(1), m2.Threshold)))
                THEN [ma |-> m2, Type |-> SellSignal]
                ELSE [ma |-> m2, Type |-> HoldSignal]

\* Analyze that drops the newest price when the window overflows
Analyze_DropsNewest(m, text) ==
    LET r == ParseFloat(text)
    IN  IF ~r.ok THEN [ma |-> m, Type |-> HoldSignal]
        ELSE
        LET app  == Append(m.PriceHistory, r.v)
            hist == IF Len(app) > m.LongPeriod
                    THEN SubSeq(app, 1, Len(app) - 1) ELSE app
            m1   == [m EXCEPT !.PriceHistory = hist]
        IN  IF Len(hist) < m.LongPeriod THEN [ma |-> m1, Type |-> HoldSignal]
            ELSE
            LET m2 == updateSMA(m1)
            IN  IF FGt(m2.ShortSMA,
                       FMul(m2.LongSMA, FAdd(F(1), m2.Threshold)))
                THEN [ma |-> m2, Type |-> BuySignal]
                ELSE IF FLt(m2.ShortSMA,
                            FMul(m2.LongSMA, FSub(F(1), m2.Threshold)))
                THEN [ma |-> m2, Type |-> SellSignal]
                ELSE [ma |-> m2, Type |-> HoldSignal]

\* Analyze whose comparisons with the band edges are not strict
Analyze_NonStrict(m, text) ==
    LET r == ParseFloat(text)
    IN  IF ~r.ok THEN [ma |-> m, Type |-> HoldSignal]
        ELSE
        LET app  == Append(m.PriceHistory, r.v)
            hist == IF Len(app) > m.LongPeriod THEN Tail(app) ELSE app
            m1   == [m EXCEPT !.PriceHistory = hist]
        IN  IF Len(hist) < m.LongPeriod THEN [ma |-> m1, Type |-> HoldSignal]
            ELSE
            LET m2 == updateSMA(m1)
            IN  IF ~FLt(m2.ShortSMA,
                        FMul(m2.LongSMA, FAdd(F(1), m2.Threshold)))
                THEN [ma |-> m2, Type |-> BuySignal]
                ELSE IF ~FGt(m2.ShortSMA,
                             FMul(m2.LongSMA, FSub(F(1), m2.Threshold)))
                THEN [ma |-> m2, Type |-> SellSignal]
                ELSE [ma |-> m2, Type |-> HoldSignal]

\* Analyze that answers Sell above the band and Buy below it
Analyze_SwappedSignals(m, text) ==
    LET r == ParseFloat(text)
    IN  IF ~r.ok THEN [ma |-> m, Type |-> HoldSignal]
        ELSE
        LET app  == Append(m.PriceHistory, r.v)
            hist == IF Len(app) > m.LongPeriod THEN Tail(app) ELSE app
            m1   == [m EXCEPT !.PriceHistory = hist]
        IN  IF Len(hist) < m.LongPeriod THEN [ma |-> m1, Type |-> HoldSignal]
            ELSE
            LET m2 == updateSMA(m1)
            IN  IF FGt(m2.ShortSMA,
                       FMul(m2.LongSMA, FAdd(F(1), m2.Threshold)))
                THEN [ma |-> m2, Type |-> SellSignal]
                ELSE IF FLt(m2.ShortSMA,
                            FMul(m2.LongSMA, FSub(F(1), m2.Threshold)))
                THEN [ma |-> m2, Type |-> BuySignal]
                ELSE [ma |-> m2, Type |-> HoldSignal]

\* Analyze that compares the two averages without the threshold band
Analyze_NoThreshold(m, text) ==
    LET r == ParseFloat(text)
    IN  IF ~r.ok THEN [ma |-> m, Type |-> HoldSignal]
        ELSE
        LET app  == Append(m.PriceHistory, r.v)
            hist == IF Len(app) > m.LongPeriod THEN Tail(app) ELSE app
            m1   == [m EXCEPT !.PriceHistory = hist]
        IN  IF Len(hist) < m.LongPeriod THEN [ma |-> m1, Type |-> HoldSignal]
            ELSE
            LET m2 == updateSMA(m1)
            IN  IF FGt(m2.ShortSMA, m2.LongSMA)
                THEN [ma |-> m2, Type |-> BuySignal]
                ELSE IF FLt(m2.ShortSMA, m2.LongSMA)
                THEN [ma |-> m2, Type |-> SellSignal]
                ELSE [ma |-> m2, Type |-> HoldSignal]

\* Analyze that empties the price history on a parse error
Analyze_ClearsOnError(m, text) ==
    LET r == ParseFloat(text)
    IN  IF ~r.ok
        THEN [ma |-> [m EXCEPT !.PriceHistory = <<>>], Type |-> HoldSignal]
        ELSE
        LET app  == Append(m.PriceHistory, r.v)
            hist == IF Len(app) > m.LongPeriod THEN Tail(app) ELSE app
            m1   == [m EXCEPT !.PriceHistory = hist]
        IN  IF Len(hist) < m.LongPeriod THEN [ma |-> m1, Type |-> HoldSignal]
            ELSE
            LET m2 == updateSMA(m1)
            IN  IF FGt(m2.ShortSMA,
                       FMul(m2.LongSMA, FAdd(F(1), m2.Threshold)))
                THEN [ma |-> m2, Type |-> BuySignal]
                ELSE IF FLt(m2.ShortSMA,
                            FMul(m2.LongSMA, FSub(F(1), m2.Threshold)))
                THEN [ma |-> m2, Type |-> SellSignal]
                ELSE [ma |-> m2, Type |-> HoldSignal]

\* Analyze that ignores the parse error and records the zero price
Analyze_RecordsOnError(m, text) ==
    LET r    == ParseFloat(text)
        app  == Append(m.PriceHistory, r.v)
        hist == IF Len(app) > m.LongPeriod THEN Tail(app) ELSE app
        m1   == [m EXCEPT !.PriceHistory = hist]
    IN  IF Len(hist) < m.LongPeriod THEN [ma |-> m1, Type |-> HoldSignal]
        ELSE
        LET m2 == updateSMA(m1)
        IN  IF FGt(m2.ShortSMA, FMul(m2.LongSMA, FAdd(F(1), m2.Threshold)))
            THEN [ma |-> m2, Type |-> BuySignal]
            ELSE IF FLt(m2.ShortSMA,
                        FMul(m2.LongSMA, FSub(F(1), m2.Threshold)))
            THEN [ma |-> m2, Type |-> SellSignal]
            ELSE [ma |-> m2, Type |-> HoldSignal]

\* func (ma *MovingAverage) Analyze(data *models.MarketData) *models.Signal
\* returns the strategy after the call and the type of the signal
Analyze(m, text) ==
    LET r == ParseFloat(text)
    IN  IF ~r.ok THEN [ma |-> m, Type |-> HoldSignal]
        ELSE
        LET app  == Append(m.PriceHistory, r.v)
            hist == IF Len(app) > m.LongPeriod THEN Tail(app) ELSE app
            m1   == [m EXCEPT !.PriceHistory = hist]
        IN  IF Len(hist) < m.LongPeriod THEN [ma |-> m1, Type |-> HoldSignal]
            ELSE
            LET m2 == updateSMA(m1)
            IN  IF FGt(m2.ShortSMA,
                       FMul(m2.LongSMA, FAdd(F(1), m2.Threshold)))
                THEN [ma |-> m2, Type |-> BuySignal]
                ELSE IF FLt(m2.ShortSMA,
                            FMul(m2.LongSMA, FSub(F(1), m2.Threshold)))
                THEN [ma |-> m2, Type |-> SellSignal]
                ELSE [ma |-> m2, Type |-> HoldSignal]

\* ------------------------------------------------------------------------
\* Backtester
\* ------------------------------------------------------------------------

\* the price texts replayed: zero, positive and negative numbers and a text
\* that is not a number
PriceTexts ==
    {<<"0">>, <<"1">>, <<"2">>, <<"3">>, <<"-", "1">>, <<"x">>}

\* initial balances and commission rates a Backtester is constructed with
Balances == {F(10)}

CommissionRates == {Norm(1, 4)}

\* strategy configurations (short period, long period, threshold)
StrategyConfigs ==
    {[ShortPeriod |-> 1, LongPeriod |-> 2, Threshold |-> F(0)]}

SeriesUpTo(n) == UNION {[1..k -> PriceTexts] : k \in 0..n}

VARIABLES
    Strategy,        \* Backtester.Strategy: the MovingAverage instance
    Data,            \* Backtester.Data: the price texts, in replay order
    InitialBalance,  \* Backtester.InitialBalance
    CommissionRate,  \* Backtester.CommissionRate
    pc,              \* position of Run: "new", "loop", "done"
    idx,             \* index in Data of the next observation of the loop
    balance,         \* Run's local balance
    position,        \* Run's local position (units held)
    entryPrice,      \* Run's local entryPrice
    maxBalance,      \* Run's local maxBalance (peak equity)
    result,          \* Run's local result (BacktestResult)
    signal,          \* type of the signal of the last observation
    parseErr,        \* whether the last observation's price failed to parse
    currentPrice,    \* Run's local currentPrice of the last observation
    events,          \* history: what Run did, in order
    exch,            \* the KISExchange: AuthToken and whether the clock is
                     \* still before AuthTokenExpiry
    brokerTokens     \* the auth tokens the broker accepts

vars == <<Strategy, Data, InitialBalance, CommissionRate, pc, idx, balance,
          position, entryPrice, maxBalance, result, signal, parseErr,
          currentPrice, events, exch, brokerTokens>>

\* a run of the backtester has no exchange
NoExchange == [AuthToken |-> 0, Unexpired |-> FALSE]

\* the zero value of BacktestResult (StartDate and EndDate are wall-clock
\* bookkeeping and are left out)
ZeroResult ==
    [TotalTrades           |-> 0,
     WinningTrades         |-> 0,
     LosingTrades          |-> 0,
     TotalProfit           |-> F(0),
     MaxDrawdown           |-> F(0),
     WinRate               |-> F(0),
     AverageProfitPerTrade |-> F(0)]

\* executeBuy that forgets the commission
executeBuy_NoCommission(bal, price) ==
    [position |-> FDiv(bal, price), balance |-> F(0)]

\* func (b *Backtester) executeBuy(balance, currentPrice float64)
executeBuy(bal, price) ==
    [position |-> FDiv(FMul(bal, FSub(F(1), CommissionRate)), price),
     balance  |-> F(0)]

\* func (b *Backtester) executeSell(position, currentPrice float64) float64
executeSell(pos, price) ==
    FMul(FMul(pos, price), FSub(F(1), CommissionRate))

\* closePosition that counts TotalTrades down instead of up
closePosition_CountsDown(finalPrice, entry, res) ==
    LET bal    == FDiv(FMul(InitialBalance, finalPrice), entry)
        profit == FSub(bal, InitialBalance)
        win    == FGt(profit, F(0))
    IN  [balance |-> bal,
         result  |->
           [res EXCEPT
              !.TotalProfit   = FAdd(@, profit),
              !.TotalTrades   = @ - 1,
              !.WinningTrades = IF win THEN @ + 1 ELSE @,
              !.LosingTrades  = IF win THEN @ ELSE @ + 1,
              !.AverageProfitPerTrade =
                  FAdd(@, FMul(FDiv(FSub(finalPrice, entry), entry),
                               F(100)))]]

\* closePosition that counts a profit of exactly 0 as a winning trade
closePosition_ZeroWins(finalPrice, entry, res) ==
    LET bal    == FDiv(FMul(InitialBalance, finalPrice), entry)
        profit == FSub(bal, InitialBalance)
        win    == ~FLt(profit, F(0))
    IN  [balance |-> bal,
         result  |->
           [res EXCEPT
              !.TotalProfit   = FAdd(@, profit),
              !.TotalTrades   = @ + 1,
              !.WinningTrades = IF win THEN @ + 1 ELSE @,
              !.LosingTrades  = IF win THEN @ ELSE @ + 1,
              !.AverageProfitPerTrade =
                  FAdd(@, FMul(FDiv(FSub(finalPrice, entry), entry),
                               F(100)))]]

\* func (b *Backtester) closePosition(finalPrice, entryPrice, result)
closePosition(finalPrice, entry, res) ==
    LET bal    == FDiv(FMul(InitialBalance, finalPrice), entry)
        profit == FSub(bal, InitialBalance)
        win    == FGt(profit, F(0))
    IN  [balance |-> bal,
         result  |->
           [res EXCEPT
              !.TotalProfit   = FAdd(@, profit),
              !.TotalTrades   = @ + 1,
              !.WinningTrades = IF win THEN @ + 1 ELSE @,
              !.LosingTrades  = IF win THEN @ ELSE @ + 1,
              !.AverageProfitPerTrade =
                  FAdd(@, FMul(FDiv(FSub(finalPrice, entry), entry),
                               F(100)))]]

\* NewMovingAverage and NewBacktester have returned; Run has not started
Init ==
    /\ \E cfg \in StrategyConfigs : Strategy = NewMovingAverage(cfg)
    /\ Data \in SeriesUpTo(MaxLen)
    /\ InitialBalance \in Balances
    /\ CommissionRate \in CommissionRates
    /\ pc = "new"
    /\ idx = 0
    /\ balance = F(0)
    /\ position = F(0)
    /\ entryPrice = F(0)
    /\ maxBalance = F(0)
    /\ result = ZeroResult
    /\ signal = HoldSignal
    /\ parseErr = FALSE
    /\ currentPrice = F(0)
    /\ events = <<>>
    /\ exch = NoExchange
    /\ brokerTokens = {}

\* Run, up to the loop: the locals are initialised
RunStart ==
    /\ pc = "new"
    /\ pc' = "loop"
    /\ idx' = 1
    /\ balance' = InitialBalance
    /\ position' = F(0)
    /\ entryPrice' = F(0)
    /\ result' = ZeroResult
    /\ maxBalance' = InitialBalance
    /\ UNCHANGED <<exch, brokerTokens>>
    /\ UNCHANGED <<Strategy, Data, InitialBalance, CommissionRate, signal,
                   parseErr, currentPrice, events>>

\* the switch without the position == 0 guard of the Buy case
Switch_BuyUnguarded(sig, price) ==
    IF sig = BuySignal
    THEN LET eb == executeBuy(balance, price)
         IN  [position   |-> eb.position,
              balance    |-> eb.balance,
              entryPrice |-> price,
              result     |-> [result EXCEPT !.TotalTrades = @ + 1],
              event      |-> <<[kind |-> "open", price |-> price]>>]
    ELSE IF sig = SellSignal /\ FGt(position, F(0))
    THEN LET cp == closePosition(price, entryPrice, result)
         IN  [position   |-> F(0),
              balance    |-> cp.balance,
              entryPrice |-> F(0),
              result     |-> cp.result,
              event      |-> <<[kind |-> "close", price |-> price]>>]
    ELSE [position   |-> position,
          balance    |-> balance,
          entryPrice |-> entryPrice,
          result     |-> result,
          event      |-> <<>>]

\* the switch whose Buy case asks for an open position
Switch_BuyGuardInverted(sig, price) ==
    IF sig = BuySignal /\ FGt(position, F(0))
    THEN LET eb == executeBuy(balance, price)
         IN  [position   |-> eb.position,
              balance    |-> eb.balance,
              entryPrice |-> price,
              result     |-> [result EXCEPT !.TotalTrades = @ + 1],
              event      |-> <<[kind |-> "open", price |-> price]>>]
    ELSE IF sig = SellSignal /\ FGt(position, F(0))
    THEN LET sold == executeSell(position, price)
             cp   == closePosition(price, entryPrice, result)
         IN  [position   |-> F(0),
              balance    |-> cp.balance,
              entryPrice |-> F(0),
              result     |-> cp.result,
              event      |-> <<[kind |-> "close", price |-> price]>>]
    ELSE [position   |-> position,
          balance    |-> balance,
          entryPrice |-> entryPrice,
          result     |-> result,
          event      |-> <<>>]

\* the state of Run's locals after the switch on signal.Type
Switch(sig, price) ==
    IF sig = BuySignal /\ FEq(position, F(0))
    THEN LET eb == executeBuy(balance, price)
         IN  [position   |-> eb.position,
              balance    |-> eb.balance,
              entryPrice |-> price,
              result     |-> [result EXCEPT !.TotalTrades = @ + 1],
              event      |-> <<[kind |-> "open", price |-> price]>>]
    ELSE IF sig = SellSignal /\ FGt(position, F(0))
    THEN LET sold == executeSell(position, price)
             cp   == closePosition(price, entryPrice, result)
         IN  [position   |-> F(0),
              balance    |-> cp.balance,
              entryPrice |-> F(0),
              result     |-> cp.result,
              event      |-> <<[kind |-> "close", price |-> price]>>]
    ELSE [position   |-> position,
          balance    |-> balance,
          entryPrice |-> entryPrice,
          result     |-> result,
          event      |-> <<>>]

\* RunLoop that looks at the drawdown only on observations with a trade
RunLoop_DrawdownAtTrades ==
    /\ pc = "loop"
    /\ idx <= Len(Data)
    /\ LET an == Analyze(Strategy, Data[idx])
           pp == parsePrice(Data[idx])
       IN  /\ Strategy' = an.ma
           /\ signal' = an.Type
           /\ parseErr' = pp.err
           /\ currentPrice' = pp.price
           /\ idx' = idx + 1
           /\ IF pp.err
              THEN /\ events' = Append(events, [kind |-> "analyze"])
                   /\ UNCHANGED <<balance, position, entryPrice, maxBalance,
                                  result>>
              ELSE LET sw  == Switch(an.Type, pp.price)
                       cur == IF FGt(sw.position, F(0))
                              THEN FMul(sw.position, pp.price)
                              ELSE sw.balance
                       mx  == IF FGt(cur, maxBalance) THEN cur ELSE maxBalance
                       dd  == FDiv(FSub(mx, cur), mx)
                   IN  /\ position' = sw.position
                       /\ balance' = sw.balance
                       /\ entryPrice' = sw.entryPrice
                       /\ maxBalance' = mx
                       /\ result' =
                            [sw.result EXCEPT !.MaxDrawdown =
                               IF sw.event # <<>> /\ FGt(dd, @)
                               THEN dd ELSE @]
                       /\ events' =
                            Append(events, [kind |-> "analyze"]) \o sw.event
    /\ UNCHANGED <<exch, brokerTokens>>
    /\ UNCHANGED <<Data, InitialBalance, CommissionRate, pc>>

\* Run, one iteration of the loop over b.Data
RunLoop ==
    /\ pc = "loop"
    /\ idx <= Len(Data)
    /\ LET an == Analyze(Strategy, Data[idx])
           pp == parsePrice(Data[idx])
       IN  /\ Strategy' = an.ma
           /\ signal' = an.Type
           /\ parseErr' = pp.err
           /\ currentPrice' = pp.price
           /\ idx' = idx + 1
           /\ IF pp.err
              THEN /\ events' = Append(events, [kind |-> "analyze"])
                   /\ UNCHANGED <<balance, position, entryPrice, maxBalance,
                                  result>>
              ELSE LET sw  == Switch(an.Type, pp.price)
                       cur == IF FGt(sw.position, F(0))
                              THEN FMul(sw.position, pp.price)
                              ELSE sw.balance
                       mx  == IF FGt(cur, maxBalance) THEN cur ELSE maxBalance
                       dd  == FDiv(FSub(mx, cur), mx)
                   IN  /\ position' = sw.position
                       /\ balance' = sw.balance
                       /\ entryPrice' = sw.entryPrice
                       /\ maxBalance' = mx
                       /\ result' =
                            [sw.result EXCEPT !.MaxDrawdown =
                               IF FGt(dd, @) THEN dd ELSE @]
                       /\ events' =
                            Append(events, [kind |-> "analyze"]) \o sw.event
    /\ UNCHANGED <<exch, brokerTokens>>
    /\ UNCHANGED <<Data, InitialBalance, CommissionRate, pc>>

\* float64(i) of an int
Float64(i) == F(i)

\* RunFinish without the TotalTrades > 0 guard of the derived statistics
RunFinish_Unguarded ==
    /\ pc = "loop"
    /\ idx > Len(Data)
    /\ LET open == FGt(position, F(0))
           fp   == IF open THEN parsePrice(Data[Len(Data)])
                   ELSE [err |-> TRUE, price |-> F(0)]
           cp   == IF open /\ ~fp.err
                   THEN closePosition(fp.price, entryPrice, result)
                   ELSE [balance |-> balance, result |-> result]
           r    == cp.result
       IN  /\ balance' = cp.balance
           /\ result' =
                [r EXCEPT
                   !.WinRate = FDiv(Float64(r.WinningTrades),
                                    Float64(r.TotalTrades)),
                   !.AverageProfitPerTrade =
                       FDiv(@, Float64(r.TotalTrades))]
           /\ events' =
                IF open /\ ~fp.err
                THEN Append(events, [kind |-> "forceclose",
                                     price |-> fp.price])
                ELSE events
    /\ pc' = "done"
    /\ UNCHANGED <<exch, brokerTokens>>
    /\ UNCHANGED <<Strategy, Data, InitialBalance, CommissionRate, idx,
                   position, entryPrice, maxBalance, signal, parseErr,
                   currentPrice>>

\* RunFinish with the operands of the WinRate division swapped
RunFinish_InvertedWinRate ==
    /\ pc = "loop"
    /\ idx > Len(Data)
    /\ LET open == FGt(position, F(0))
           fp   == IF open THEN parsePrice(Data[Len(Data)])
                   ELSE [err |-> TRUE, price |-> F(0)]
           cp   == IF open /\ ~fp.err
                   THEN closePosition(fp.price, entryPrice, result)
                   ELSE [balance |-> balance, result |-> result]
           r    == cp.result
       IN  /\ balance' = cp.balance
           /\ result' =
                IF r.TotalTrades > 0
                THEN [r EXCEPT
                        !.WinRate = FDiv(Float64(r.TotalTrades),
                                         Float64(r.WinningTrades)),
                        !.AverageProfitPerTrade =
                            FDiv(@, Float64(r.TotalTrades))]
                ELSE r
           /\ events' =
                IF open /\ ~fp.err
                THEN Append(events, [kind |-> "forceclose",
                                     price |-> fp.price])
                ELSE events
    /\ pc' = "done"
    /\ UNCHANGED <<exch, brokerTokens>>
    /\ UNCHANGED <<Strategy, Data, InitialBalance, CommissionRate, idx,
                   position, entryPrice, maxBalance, signal, parseErr,
                   currentPrice>>

\* Run, after the loop: the last position is closed and the derived
\* statistics are computed
RunFinish ==
    /\ pc = "loop"
    /\ idx > Len(Data)
    /\ LET open == FGt(position, F(0))
           fp   == IF open THEN parsePrice(Data[Len(Data)])
                   ELSE [err |-> TRUE, price |-> F(0)]
           cp   == IF open /\ ~fp.err
                   THEN closePosition(fp.price, entryPrice, result)
                   ELSE [balance |-> balance, result |-> result]
           r    == cp.result
       IN  /\ balance' = cp.balance
           /\ result' =
                IF r.TotalTrades > 0
                THEN [r EXCEPT
                        !.WinRate = FDiv(Float64(r.WinningTrades),
                                         Float64(r.TotalTrades)),
                        !.AverageProfitPerTrade =
                            FDiv(@, Float64(r.TotalTrades))]
                ELSE r
           /\ events' =
                IF open /\ ~fp.err
                THEN Append(events, [kind |-> "forceclose",
                                     price |-> fp.price])
                ELSE events
    /\ pc' = "done"
    /\ UNCHANGED <<exch, brokerTokens>>
    /\ UNCHANGED <<Strategy, Data, InitialBalance, CommissionRate, idx,
                   position, entryPrice, maxBalance, signal, parseErr,
                   currentPrice>>

Next == RunStart \/ RunLoop \/ RunFinish

Spec == Init /\ [][Next]_vars

\* A second set of runs: a strategy with a short window of 2 and a long
\* window of 3 prices, over price texts without a negative number
LongWindowTexts == {<<"0">>, <<"1">>, <<"2">>, <<"3">>, <<"x">>}

LongWindowConfigs ==
    {[ShortPeriod |-> 2, LongPeriod |-> 3, Threshold |-> F(0)]}

InitLongWindow ==
    /\ \E cfg \in LongWindowConfigs : Strategy = NewMovingAverage(cfg)
    /\ Data \in UNION {[1..k -> LongWindowTexts] : k \in 0..MaxLen}
    /\ InitialBalance \in Balances
    /\ CommissionRate \in CommissionRates
    /\ pc = "new"
    /\ idx = 0
    /\ balance = F(0)
    /\ position = F(0)
    /\ entryPrice = F(0)
    /\ maxBalance = F(0)
    /\ result = ZeroResult
    /\ signal = HoldSignal
    /\ parseErr = FALSE
    /\ currentPrice = F(0)
    /\ events = <<>>
    /\ exch = NoExchange
    /\ brokerTokens = {}

SpecLongWindow == InitLongWindow /\ [][Next]_vars

\* A third set of runs: strategies with and without a threshold band, over
\* non-negative price texts that put the short average above, below and
\* exactly on the edges of the band
BandTexts == {<<"0">>, <<"1">>, <<"3">>, <<"4">>, <<"x">>}

BandConfigs ==
    {[ShortPeriod |-> 1, LongPeriod |-> 2, Threshold |-> F(0)],
     [ShortPeriod |-> 1, LongPeriod |-> 2, Threshold |-> Norm(1, 2)],
     [ShortPeriod |-> 2, LongPeriod |-> 3, Threshold |-> F(0)],
     [ShortPeriod |-> 2, LongPeriod |-> 3, Threshold |-> Norm(1, 2)]}

InitBand ==
    /\ \E cfg \in BandConfigs : Strategy = NewMovingAverage(cfg)
    /\ Data \in UNION {[1..k -> BandTexts] : k \in 0..MaxLen}
    /\ InitialBalance \in Balances
    /\ CommissionRate \in CommissionRates
    /\ pc = "new"
    /\ idx = 0
    /\ balance = F(0)
    /\ position = F(0)
    /\ entryPrice = F(0)
    /\ maxBalance = F(0)
    /\ result = ZeroResult
    /\ signal = HoldSignal
    /\ parseErr = FALSE
    /\ currentPrice = F(0)
    /\ events = <<>>
    /\ exch = NoExchange
    /\ brokerTokens = {}

SpecBand == InitBand /\ [][Next]_vars

\* A fourth set of runs: the configuration and the uptrend prices of
\* TestMovingAverageAnalyze, replayed whole and in every contiguous part
UptrendConfig == [ShortPeriod |-> 5, LongPeriod |-> 10, Threshold |-> Norm(1, 100)]

UptrendPrices ==
    << <<"1", "0", "0">>, <<"1", "0", "1">>, <<"1", "0", "2">>,
       <<"1", "0", "3">>, <<"1", "0", "4">>, <<"1", "0", "5">>,
       <<"1", "0", "6">>, <<"1", "0", "7">>, <<"1", "0", "8">>,
       <<"1", "0", "9">>, <<"1", "1", "0">> >>

InitUptrend ==
    /\ Strategy = NewMovingAverage(UptrendConfig)
    /\ \E i \in 1..(Len(UptrendPrices) + 1), j \in 0..Len(UptrendPrices) :
         Data = SubSeq(UptrendPrices, i, j)
    /\ InitialBalance \in Balances
    /\ CommissionRate \in CommissionRates
    /\ pc = "new"
    /\ idx = 0
    /\ balance = F(0)
    /\ position = F(0)
    /\ entryPrice = F(0)
    /\ maxBalance = F(0)
    /\ result = ZeroResult
    /\ signal = HoldSignal
    /\ parseErr = FALSE
    /\ currentPrice = F(0)
    /\ events = <<>>
    /\ exch = NoExchange
    /\ brokerTokens = {}

SpecUptrend == InitUptrend /\ [][Next]_vars

\* A fifth set of runs: strictly rising and strictly falling series of
\* positive prices, for strategies with and without a threshold band
TrendTexts == {<<"1">>, <<"2">>, <<"3">>, <<"4">>, <<"5">>, <<"6">>}

TrendConfigs ==
    {[ShortPeriod |-> sl[1], LongPeriod |-> sl[2], Threshold |-> t] :
       sl \in {<<1, 2>>, <<2, 3>>, <<1, 3>>}, t \in {F(0), Norm(1, 2)}}

\* every text of the series parses, to a price above (below) the one before
RisingTexts(q) ==
    \A i \in 1..Len(q) :
       /\ ParseFloat(q[i]).ok
       /\ i > 1 => FGt(ParseFloat(q[i]).v, ParseFloat(q[i - 1]).v)

FallingTexts(q) ==
    \A i \in 1..Len(q) :
       /\ ParseFloat(q[i]).ok
       /\ i > 1 => FLt(ParseFloat(q[i]).v, ParseFloat(q[i - 1]).v)

InitTrend ==
    /\ \E cfg \in TrendConfigs : Strategy = NewMovingAverage(cfg)
    /\ Data \in {q \in UNION {[1..k -> TrendTexts] : k \in 0..MaxLen} :
                   RisingTexts(q) \/ FallingTexts(q)}
    /\ InitialBalance \in Balances
    /\ CommissionRate \in CommissionRates
    /\ pc = "new"
    /\ idx = 0
    /\ balance = F(0)
    /\ position = F(0)
    /\ entryPrice = F(0)
    /\ maxBalance = F(0)
    /\ result = ZeroResult
    /\ signal = HoldSignal
    /\ parseErr = FALSE
    /\ currentPrice = F(0)
    /\ events = <<>>
    /\ exch = NoExchange
    /\ brokerTokens = {}

SpecTrend == InitTrend /\ [][Next]_vars

\* func (c *Config) Validate() error, on the strategy configuration: the
\* error text, or "nil"
Validate(c) ==
    IF c.ShortPeriod <= 0 \/ c.LongPeriod <= 0
    THEN "strategy periods must be positive"
    ELSE IF c.ShortPeriod >= c.LongPeriod
    THEN "short period must be less than long period"
    ELSE "nil"

\* A sixth set of runs: strategies and backtesters constructed directly, as
\* the tests construct them, from any values of the parameter types
UncheckedTexts == {<<"1">>, <<"2">>}

UncheckedConfigs ==
    {[ShortPeriod |-> sl[1], LongPeriod |-> sl[2], Threshold |-> t] :
       sl \in {<<1, 2>>, <<2, 1>>, <<2, 2>>, <<0, 1>>, <<1, 0>>, <<-1, 1>>},
       t \in {F(0), Norm(-1, 2)}}

UncheckedBalances == {F(10), F(0), F(-10)}

UncheckedRates == {Norm(1, 4), Norm(-1, 4), F(1), Norm(5, 4)}

InitUnchecked ==
    /\ \E cfg \in UncheckedConfigs : Strategy = NewMovingAverage(cfg)
    /\ Data \in UNION {[1..k -> UncheckedTexts] : k \in 0..MaxLen}
    /\ \/ InitialBalance \in UncheckedBalances /\ CommissionRate = Norm(1, 4)
       \/ InitialBalance = F(10) /\ CommissionRate \in UncheckedRates
    /\ pc = "new"
    /\ idx = 0
    /\ balance = F(0)
    /\ position = F(0)
    /\ entryPrice = F(0)
    /\ maxBalance = F(0)
    /\ result = ZeroResult
    /\ signal = HoldSignal
    /\ parseErr = FALSE
    /\ currentPrice = F(0)
    /\ events = <<>>
    /\ exch = NoExchange
    /\ brokerTokens = {}

SpecUnchecked == InitUnchecked /\ [][Next]_vars

\* ------------------------------------------------------------------------
\* Exchange
\* ------------------------------------------------------------------------

\* const maxRetries
maxRetries == 3

\* a request sent to the broker, or a call and its result, as logged in
\* events: the token it carried and whether the broker accepted it
Sent(kind, token, out, accepted) ==
    [kind |-> kind, token |-> token, out |-> out, accepted |-> accepted]

\* what the broker and the network can make of an order request:
\*   "ok"           answered 200 with an order the client can parse
\*   "unauthorized" an error whose text contains "unauthorized request"
\*   "lostreply"    accepted and answered 200, but the body cannot be read
\*                  or parsed by the client
\*   "failed"       any other error; the order is not accepted
OrderAnswers == {"ok", "unauthorized", "lostreply", "failed"}

\* the answers to the token requests of one refresh, in order: a token at
\* once, a token at the second request, try-again-later every time, an error
TokenScripts ==
    {<<"ok", "ok", "ok">>, <<"busy", "ok", "ok">>,
     <<"busy", "busy", "busy">>, <<"err", "err", "err">>}

\* func (e *KISExchange) placeOrderInternal(signal) (*models.Order, error)
\* a broker that does not accept the token answers no request with success
placeOrderInternal(e, tokens, answer) ==
    LET out == IF e.AuthToken \in tokens THEN answer
               ELSE IF answer = "ok" THEN "unauthorized"
               ELSE IF answer = "lostreply" THEN "failed"
               ELSE answer
    IN  Sent("placeOrderInternal", e.AuthToken, out,
             out \in {"ok", "lostreply"})

\* the retry loop of refreshAuthToken, from the given retry on
RECURSIVE refreshFrom(_, _, _, _)
refreshFrom(e, tokens, g, retries) ==
    IF retries >= maxRetries
    THEN [exch |-> e, tokens |-> tokens, err |-> "err", log |-> <<>>]
    ELSE IF g[retries + 1] = "ok"
    THEN [exch   |-> [AuthToken |-> e.AuthToken + 1, Unexpired |-> TRUE],
          tokens |-> tokens \cup {e.AuthToken + 1},
          err    |-> "nil",
          log    |-> <<Sent("getAuthToken", e.AuthToken + 1, "ok", TRUE)>>]
    ELSE IF g[retries + 1] = "busy"
    THEN LET rest == refreshFrom(e, tokens, g, retries + 1)
         IN  [rest EXCEPT !.log =
                <<Sent("getAuthToken", 0, "busy", FALSE)>> \o @]
    ELSE [exch |-> e, tokens |-> tokens, err |-> "err",
          log  |-> <<Sent("getAuthToken", 0, "err", FALSE)>>]

\* func (e *KISExchange) refreshAuthToken() error
refreshAuthToken(e, tokens, g) ==
    IF e.Unexpired
    THEN [exch |-> e, tokens |-> tokens, err |-> "nil", log |-> <<>>]
    ELSE refreshFrom(e, tokens, g, 0)

\* the retry loop of PlaceOrder, from attempt i on
RECURSIVE PlaceOrderFrom(_, _, _, _, _)
PlaceOrderFrom(e, tokens, answers, g, i) ==
    IF i >= maxRetries
    THEN [exch |-> e, tokens |-> tokens, order |-> FALSE, log |-> <<>>]
    ELSE
    LET a == placeOrderInternal(e, tokens, answers[i + 1])
    IN  IF a.out = "ok"
        THEN [exch |-> e, tokens |-> tokens, order |-> TRUE, log |-> <<a>>]
        ELSE IF a.out = "unauthorized"
        THEN LET rf == refreshAuthToken(e, tokens, g)
             IN  IF rf.err # "nil"
                 THEN [exch   |-> rf.exch,
                       tokens |-> rf.tokens,
                       order  |-> FALSE,
                       log    |-> <<a>> \o rf.log \o
                                  <<Sent("refreshAuthToken", 0, "err",
                                         FALSE)>>]
                 ELSE LET rest == PlaceOrderFrom(rf.exch, rf.tokens,
                                                 answers, g, i + 1)
                      IN  [rest EXCEPT !.log =
                             <<a>> \o rf.log \o
                             <<Sent("refreshAuthToken", 0, "nil", FALSE)>>
                             \o @]
        ELSE LET rest == PlaceOrderFrom(e, tokens, answers, g, i + 1)
             IN  [rest EXCEPT !.log = <<a>> \o @]

\* PlaceOrder that keeps trying after an attempt succeeded
PlaceOrder_IgnoresSuccess(e, tokens, answers, g) ==
    LET first == PlaceOrderFrom(e, tokens, answers, g, 0)
    IN  IF first.order /\ Len(first.log) < maxRetries
        THEN [first EXCEPT !.log =
                @ \o <<placeOrderInternal(first.exch, first.tokens, "ok")>>]
        ELSE first

\* func (e *KISExchange) PlaceOrder(signal) (*models.Order, error)
\* answers and g are the answers to its order and token requests
PlaceOrder(e, tokens, answers, g) == PlaceOrderFrom(e, tokens, answers, g, 0)

\* func (e *KISExchange) GetMarketData(stockCode) (*models.MarketData, error)
\* answer is what the network and a broker that accepts the token make of
\* the request
GetMarketData(e, tokens, answer) ==
    IF e.AuthToken \in tokens THEN answer
    ELSE [err |-> TRUE, StckPrpr |-> <<>>]

\* ------------------------------------------------------------------------
\* Live trading loop
\* ------------------------------------------------------------------------

\* the trading cycles of one execution of main's loop
MaxCycles == 3

\* the price texts the exchange answers with
LiveTexts == {<<"0">>, <<"1">>, <<"3">>, <<"x">>}

\* what a market data request can come to: an error, or a price text
MarketAnswers ==
    {[err |-> TRUE, StckPrpr |-> <<>>]} \cup
    {[err |-> FALSE, StckPrpr |-> text] : text \in LiveTexts}

\* the calls of the trading cycles so far are kept in events, each with its
\* outcome: "err", "ok" or, for Analyze, the type of the signal
Call(kind, out) == [kind |-> kind, out |-> out]

Cycles == Len(SelectSeq(events, LAMBDA e : e.kind = "GetMarketData"))

InitLive ==
    /\ \E cfg \in StrategyConfigs : Strategy = NewMovingAverage(cfg)
    /\ Data = <<>>
    /\ InitialBalance = F(0)
    /\ CommissionRate = F(0)
    /\ pc = "live"
    /\ idx = 0
    /\ balance = F(0)
    /\ position = F(0)
    /\ entryPrice = F(0)
    /\ maxBalance = F(0)
    /\ result = ZeroResult
    /\ signal = HoldSignal
    /\ parseErr = FALSE
    /\ currentPrice = F(0)
    /\ events = <<>>
    /\ exch = [AuthToken |-> 1, Unexpired |-> TRUE]
    /\ brokerTokens = {1}

\* runTradingCycle that saves whatever PlaceOrder returned
runTradingCycle_SavesFailedOrder ==
    /\ pc = "live"
    /\ Cycles < MaxCycles
    /\ \E answer \in MarketAnswers :
         LET md == GetMarketData(exch, brokerTokens, answer)
         IN  IF md.err
             THEN /\ events' = Append(events, Call("GetMarketData", "err"))
                  /\ UNCHANGED <<Strategy, signal, exch, brokerTokens>>
             ELSE
             LET an      == Analyze(Strategy, md.StckPrpr)
                 fetched == events \o <<Call("GetMarketData", "ok"),
                                        Call("Analyze", an.Type)>>
             IN  /\ Strategy' = an.ma
                 /\ signal' = an.Type
                 /\ IF an.Type # HoldSignal
                    THEN \E answers \in [1..maxRetries -> OrderAnswers],
                            g \in TokenScripts,
                            saved \in {"ok", "err"} :
                           LET po == PlaceOrder(exch, brokerTokens,
                                                answers, g)
                           IN  /\ exch' = po.exch
                               /\ brokerTokens' = po.tokens
                               /\ events' = fetched \o
                                    <<Call("PlaceOrder",
                                           IF po.order THEN "ok"
                                                       ELSE "err"),
                                      Call("SaveOrder", saved)>>
                    ELSE /\ events' = fetched
                         /\ UNCHANGED <<exch, brokerTokens>>
    /\ UNCHANGED <<Data, InitialBalance, CommissionRate, pc, idx, balance,
                   position, entryPrice, maxBalance, result, parseErr,
                   currentPrice>>

\* func runTradingCycle(cfg, exch, strat, db) error
\* the answers of the broker, drawn from the given sets, and the outcome of
\* SaveOrder are the environment's
tradingCycle(marketAnswers, orderAnswers, tokenScripts) ==
    /\ pc = "live"
    /\ Cycles < MaxCycles
    /\ \E answer \in marketAnswers :
         LET md == GetMarketData(exch, brokerTokens, answer)
         IN  IF md.err
             THEN /\ events' = Append(events, Call("GetMarketData", "err"))
                  /\ UNCHANGED <<Strategy, signal, exch, brokerTokens>>
             ELSE
             LET an      == Analyze(Strategy, md.StckPrpr)
                 fetched == events \o <<Call("GetMarketData", "ok"),
                                        Call("Analyze", an.Type)>>
             IN  /\ Strategy' = an.ma
                 /\ signal' = an.Type
                 /\ IF an.Type # HoldSignal
                    THEN \E answers \in orderAnswers, g \in tokenScripts :
                           LET po == PlaceOrder(exch, brokerTokens,
                                                answers, g)
                           IN  /\ exch' = po.exch
                               /\ brokerTokens' = po.tokens
                               /\ IF ~po.order
                                  THEN events' =
                                         Append(fetched,
                                                Call("PlaceOrder", "err"))
                                  ELSE \E saved \in {"ok", "err"} :
                                         events' = fetched \o
                                           <<Call("PlaceOrder", "ok"),
                                             Call("SaveOrder", saved)>>
                    ELSE /\ events' = fetched
                         /\ UNCHANGED <<exch, brokerTokens>>
    /\ UNCHANGED <<Data, InitialBalance, CommissionRate, pc, idx, balance,
                   position, entryPrice, maxBalance, result, parseErr,
                   currentPrice>>

\* a trading cycle with any answer of the broker
runTradingCycle ==
    tradingCycle(MarketAnswers, [1..maxRetries -> OrderAnswers], TokenScripts)

NextLive == runTradingCycle

SpecLive == InitLive /\ [][NextLive]_vars

\* ------------------------------------------------------------------------
\* Run called again on the same Backtester
\* ------------------------------------------------------------------------

RerunTexts == {<<"1">>, <<"3">>, <<"x">>}

InitRerun ==
    /\ \E cfg \in StrategyConfigs : Strategy = NewMovingAverage(cfg)
    /\ Data \in UNION {[1..k -> RerunTexts] : k \in 0..MaxLen}
    /\ InitialBalance \in Balances
    /\ CommissionRate \in CommissionRates
    /\ pc = "new"
    /\ idx = 0
    /\ balance = F(0)
    /\ position = F(0)
    /\ entryPrice = F(0)
    /\ maxBalance = F(0)
    /\ result = ZeroResult
    /\ signal = HoldSignal
    /\ parseErr = FALSE
    /\ currentPrice = F(0)
    /\ events = <<>>
    /\ exch = NoExchange
    /\ brokerTokens = {}

\* the statistics Run has returned, as kept in events
Returns == SelectSeq(events, LAMBDA e : e.kind = "return")

\* Run has returned result and the caller calls b.Run() again: the fields of
\* the Backtester, the strategy instance among them, are as the first call
\* left them
RunAgain ==
    /\ pc = "done"
    /\ Len(Returns) = 0
    /\ pc' = "new"
    /\ events' = Append(events, [kind |-> "return", result |-> result])
    /\ UNCHANGED <<Strategy, Data, InitialBalance, CommissionRate, idx,
                   balance, position, entryPrice, maxBalance, result, signal,
                   parseErr, currentPrice, exch, brokerTokens>>

NextRerun == RunStart \/ RunLoop \/ RunFinish \/ RunAgain

SpecRerun == InitRerun /\ [][NextRerun]_vars

\* ------------------------------------------------------------------------
\* Calls of the exchange
\* ------------------------------------------------------------------------

\* the tokens one execution asks the broker for
MaxTokens == 3

\* one call of PlaceOrder on the started exchange; events keeps the requests
\* of the latest call and, last, the call with its result
PlaceOrderCall ==
    /\ pc = "live"
    /\ exch.AuthToken < MaxTokens
    /\ \E answers \in [1..maxRetries -> OrderAnswers], g \in TokenScripts :
         LET po == PlaceOrder(exch, brokerTokens, answers, g)
         IN  /\ exch' = po.exch
             /\ brokerTokens' = po.tokens
             /\ events' = Append(po.log,
                                 Sent("PlaceOrder", po.exch.AuthToken,
                                      IF po.order THEN "ok" ELSE "err",
                                      FALSE))
    /\ UNCHANGED <<Strategy, Data, InitialBalance, CommissionRate, pc, idx,
                   balance, position, entryPrice, maxBalance, result, signal,
                   parseErr, currentPrice>>

\* the clock reaches AuthTokenExpiry, one hour after the token was obtained
ClockPassesExpiry ==
    /\ pc = "live"
    /\ exch.Unexpired
    /\ exch' = [exch EXCEPT !.Unexpired = FALSE]
    /\ UNCHANGED <<Strategy, Data, InitialBalance, CommissionRate, pc, idx,
                   balance, position, entryPrice, maxBalance, result, signal,
                   parseErr, currentPrice, events, brokerTokens>>

\* the broker stops accepting the token the exchange holds
TokenExpires ==
    /\ pc = "live"
    /\ exch.AuthToken \in brokerTokens
    /\ brokerTokens' = brokerTokens \ {exch.AuthToken}
    /\ UNCHANGED <<Strategy, Data, InitialBalance, CommissionRate, pc, idx,
                   balance, position, entryPrice, maxBalance, result, signal,
                   parseErr, currentPrice, events, exch>>

NextExchange == PlaceOrderCall \/ ClockPassesExpiry \/ TokenExpires

SpecExchange == InitLive /\ [][NextExchange]_vars

\* ------------------------------------------------------------------------
\* The trading loop across the expiry of the token
\* ------------------------------------------------------------------------

\* a trading cycle against a broker that is available: every request with a
\* token the broker accepts is answered, and every token request is granted
runTradingCycleAvailable ==
    tradingCycle({a \in MarketAnswers : ~a.err},
                 {[i \in 1..maxRetries |-> "ok"]},
                 {<<"ok", "ok", "ok">>})

NextLiveExpiry ==
    runTradingCycleAvailable \/ ClockPassesExpiry \/ TokenExpires

\* the loop of main never stops calling runTradingCycle
SpecLiveExpiry ==
    InitLive /\ [][NextLiveExpiry]_vars /\ WF_vars(runTradingCycleAvailable)

\* ------------------------------------------------------------------------
\* Properties
\* ------------------------------------------------------------------------

\* what Run did to the position, in order (opens and closes)
TradeEvents == SelectSeq(events, LAMBDA e : e.kind # "analyze")

Opens == SelectSeq(events, LAMBDA e : e.kind = "open")

\* a step of the loop that processed an observation whose price parsed
ObservedStep == pc = "loop" /\ idx' = idx + 1 /\ ~parseErr'

\* a step of the loop whose observation's price failed to parse
SkippedStep == pc = "loop" /\ idx' = idx + 1 /\ parseErr'

\* a step in which a Sell signal closed the position
SellCloseStep ==
    /\ ObservedStep
    /\ Len(events') = Len(events) + 2
    /\ events'[Len(events')].kind = "close"

\* the step in which the end of Run closed the position
ForceCloseStep ==
    /\ pc = "loop" /\ pc' = "done"
    /\ Len(events') = Len(events) + 1

Flat == FEq(position, F(0))

Long == FGt(position, F(0))

OneMinusC == FSub(F(1), CommissionRate)

\* C1: a run with exactly one position, opened by a Buy at p1 and closed by
\* a Sell at a higher p2, reports TotalProfit = B*(1-c)*(1-c)*p2/p1 - B
C1_RoundTripPaysCommissionTwice ==
    (/\ pc = "done"
     /\ Len(TradeEvents) = 2
     /\ TradeEvents[1].kind = "open"
     /\ TradeEvents[2].kind = "close"
     /\ FGt(TradeEvents[1].price, F(0))
     /\ FGt(TradeEvents[2].price, TradeEvents[1].price))
    => result.TotalProfit =
         FSub(FDiv(FMul(FMul(FMul(InitialBalance, OneMinusC), OneMinusC),
                        TradeEvents[2].price),
                   TradeEvents[1].price),
              InitialBalance)

\* C2: when a Sell closes a position of u units at price p the balance
\* carried forward is u * p * (1 - commissionRate)
C2_SellCarriesNetProceeds ==
    [][SellCloseStep =>
         balance' = FMul(FMul(position, currentPrice'), OneMinusC)]_vars

\* C3: when Run has returned, WinningTrades + LosingTrades = TotalTrades
C3_ClosedEqualsTotalAtReturn ==
    pc = "done" =>
      result.WinningTrades + result.LosingTrades = result.TotalTrades

\* C4: in every state of a run WinningTrades + LosingTrades <= TotalTrades
C4_ClosedAtMostTotal ==
    result.WinningTrades + result.LosingTrades <= result.TotalTrades

\* C4 witness: mid-run, a position has been closed and another one opened
C4_Witness ==
    /\ pc = "loop"
    /\ result.WinningTrades + result.LosingTrades >= 1
    /\ result.TotalTrades > result.WinningTrades + result.LosingTrades
    /\ Long

\* C5: a position still open when the series is exhausted is closed by Run
\* before it returns, so that the closes counted in WinningTrades +
\* LosingTrades catch up with the positions opened
C5_OpenPositionForceClosedAtReturn ==
    [][(pc = "loop" /\ pc' = "done" /\ Long) =>
         /\ result'.WinningTrades + result'.LosingTrades =
              result.WinningTrades + result.LosingTrades + 1
         /\ result'.WinningTrades + result'.LosingTrades = Len(Opens)]_vars

\* C6: a Buy at a parseable price p while flat with balance b makes the
\* position b*(1-c)/p, the entry price p and the balance 0, adds one to
\* TotalTrades and leaves WinningTrades, LosingTrades and TotalProfit alone
C6_FlatBuyOpens ==
    [][(ObservedStep /\ Flat /\ signal' = BuySignal) =>
         /\ position' = FDiv(FMul(balance, OneMinusC), currentPrice')
         /\ entryPrice' = currentPrice'
         /\ balance' = F(0)
         /\ result'.TotalTrades = result.TotalTrades + 1
         /\ result'.WinningTrades = result.WinningTrades
         /\ result'.LosingTrades = result.LosingTrades
         /\ result'.TotalProfit = result.TotalProfit]_vars

\* C6 witness: the last observation was a Buy that opened a position
C6_Witness ==
    /\ pc = "loop"
    /\ signal = BuySignal
    /\ ~parseErr
    /\ Len(events) > 0
    /\ events[Len(events)].kind = "open"
    /\ Long
    /\ result.TotalTrades = 1

\* C7: Sell while flat, Buy while long and Hold leave position, entry price,
\* balance, the three counters, TotalProfit and the average-profit
\* accumulator unchanged
C7_IgnoredSignalIsNoOp ==
    [][(/\ ObservedStep
        /\ \/ signal' = SellSignal /\ Flat
           \/ signal' = BuySignal /\ Long
           \/ signal' = HoldSignal) =>
         /\ UNCHANGED <<position, entryPrice, balance>>
         /\ result'.TotalTrades = result.TotalTrades
         /\ result'.WinningTrades = result.WinningTrades
         /\ result'.LosingTrades = result.LosingTrades
         /\ result'.TotalProfit = result.TotalProfit
         /\ result'.AverageProfitPerTrade = result.AverageProfitPerTrade]_vars

\* C7 witness: a Buy arrived while long and was ignored, and the drawdown
\* has moved on an observation without a trade
C7_Witness ==
    /\ pc = "loop"
    /\ signal = BuySignal
    /\ ~parseErr
    /\ Long
    /\ events[Len(events)].kind = "analyze"
    /\ FGt(maxBalance, InitialBalance)

\* what every close does to the result, given the balance after the close
CloseAccounting ==
    LET profit == FSub(balance', InitialBalance)
        win    == FGt(profit, F(0))
    IN  /\ result'.TotalProfit = FAdd(result.TotalProfit, profit)
        /\ result'.WinningTrades =
             result.WinningTrades + (IF win THEN 1 ELSE 0)
        /\ result'.LosingTrades =
             result.LosingTrades + (IF win THEN 0 ELSE 1)

\* C8 as stated: every close, by Sell or by the end of the run, does the
\* close accounting and then resets the position to flat without entry price
C8_EveryCloseAccountsAndResets ==
    [][(SellCloseStep \/ ForceCloseStep) =>
         /\ CloseAccounting
         /\ position' = F(0)
         /\ entryPrice' = F(0)]_vars

\* C8 amended: every close does the close accounting; a close by Sell
\* resets the position to flat without entry price
C8_CloseAccountsSellResets ==
    [][/\ (SellCloseStep \/ ForceCloseStep) => CloseAccounting
       /\ SellCloseStep => (position' = F(0) /\ entryPrice' = F(0))]_vars

\* C8 witness: a Sell closed a position at its entry price: the profit is 0,
\* the trade is counted as losing and the position is flat again
C8_Witness ==
    /\ pc = "loop"
    /\ signal = SellSignal
    /\ events[Len(events)].kind = "close"
    /\ FEq(balance, InitialBalance)
    /\ result.WinningTrades = 0
    /\ result.LosingTrades = 1
    /\ Flat
    /\ entryPrice = F(0)

\* C9: the position is always flat (size 0, no entry price) or long
\* (size > 0, entry price of the opening observation)
C9_FlatOrLong ==
    pc \in {"loop", "done"} =>
      \/ position = F(0) /\ entryPrice = F(0)
      \/ /\ FGt(position, F(0))
         /\ Len(Opens) > 0
         /\ entryPrice = Opens[Len(Opens)].price

\* C10 as stated: an observation whose price does not parse is not given to
\* the strategy and changes nothing
C10_UnparseableNotAnalyzed ==
    [][SkippedStep =>
         /\ events' = events
         /\ Strategy' = Strategy
         /\ UNCHANGED <<balance, position, entryPrice, maxBalance, result>>
         /\ pc' = "loop"]_vars

\* C10 amended: an observation whose price does not parse is given to the
\* strategy, which answers Hold and keeps its state; Run discards the signal
\* and changes nothing, and goes on with the next observation
C10_UnparseableChangesNothing ==
    [][SkippedStep =>
         /\ events' = Append(events, [kind |-> "analyze"])
         /\ signal' = HoldSignal
         /\ Strategy' = Strategy
         /\ UNCHANGED <<balance, position, entryPrice, maxBalance, result>>
         /\ pc' = "loop"]_vars

\* C10 witness: an unparseable observation was skipped while long, after the
\* strategy had a full window, and another observation follows
C10_Witness ==
    /\ pc = "loop"
    /\ parseErr
    /\ Long
    /\ Len(Strategy.PriceHistory) = Strategy.LongPeriod
    /\ idx <= Len(Data)

\* every observation of the series parses to a finite non-negative price
AllPricesNonNegative ==
    \A i \in 1..Len(Data) :
       /\ ParseFloat(Data[i]).ok
       /\ IsFinite(ParseFloat(Data[i]).v)
       /\ ParseFloat(Data[i]).v.n >= 0

\* C11: for a series of parseable finite non-negative prices (0 included)
\* and a positive initial balance no reported statistic is NaN or infinite
C11_StatisticsFinite ==
    (pc = "done" /\ AllPricesNonNegative /\ FGt(InitialBalance, F(0))) =>
      /\ IsFinite(result.TotalProfit)
      /\ IsFinite(result.MaxDrawdown)
      /\ IsFinite(result.WinRate)
      /\ IsFinite(result.AverageProfitPerTrade)

\* the larger of two float64 as  if b > a { a = b }  leaves it in a
FMax(a, b) == IF FGt(b, a) THEN b ELSE a

\* C12: after every parseable observation the equity is the balance when
\* not long and units * price when long, the peak is the maximum of the
\* peak so far and the equity, and MaxDrawdown the maximum of MaxDrawdown so
\* far and (peak - equity) / peak; the peak starts at InitialBalance and
\* MaxDrawdown never decreases
C12_DrawdownTracksEquity ==
    [][/\ pc = "new" => (maxBalance' = InitialBalance
                         /\ result'.MaxDrawdown = F(0))
       /\ pc = "loop" =>
            /\ ~FLt(maxBalance', maxBalance)
            /\ ~FLt(result'.MaxDrawdown, result.MaxDrawdown)
       /\ ObservedStep =>
            LET equity == IF FGt(position', F(0))
                          THEN FMul(position', currentPrice')
                          ELSE balance'
            IN  /\ maxBalance' = FMax(maxBalance, equity)
                /\ result'.MaxDrawdown =
                     FMax(result.MaxDrawdown,
                          FDiv(FSub(maxBalance', equity), maxBalance'))]_vars

\* C12 witness: a Hold while long, the only trade being the open, has taken
\* the drawdown beyond what the entry commission cost
C12_Witness ==
    /\ pc = "loop"
    /\ signal = HoldSignal
    /\ ~parseErr
    /\ Long
    /\ result.TotalTrades = 1
    /\ events[Len(events)].kind = "analyze"
    /\ FGt(result.MaxDrawdown, CommissionRate)
    /\ result.MaxDrawdown =
         FDiv(FSub(maxBalance, FMul(position, currentPrice)), maxBalance)

\* C13: a run without a trade returns WinRate = 0 and
\* AverageProfitPerTrade = 0 (nothing is divided by TotalTrades = 0)
C13_NoTradeNoDivision ==
    (pc = "done" /\ result.TotalTrades = 0) =>
      /\ result.WinRate = F(0)
      /\ result.AverageProfitPerTrade = F(0)

\* C13 witness: a run over parsed prices that returned without a trade
C13_Witness ==
    /\ pc = "done"
    /\ result.TotalTrades = 0
    /\ Len(Strategy.PriceHistory) = Strategy.LongPeriod
    /\ signal = SellSignal

\* C14: a returned result with TotalTrades > 0 has 0 <= WinRate <= 1
C14_WinRateInUnitInterval ==
    (pc = "done" /\ result.TotalTrades > 0) =>
      /\ ~IsNaN(result.WinRate)
      /\ ~FLt(result.WinRate, F(0))
      /\ ~FGt(result.WinRate, F(1))

\* C14 witness: a returned result with a winning trade
C14_Witness ==
    /\ pc = "done"
    /\ result.TotalTrades > 0
    /\ result.WinningTrades > 0
    /\ FGt(result.WinRate, F(0))

\* the prices of the first k observations that parse, in order
RECURSIVE ParsedUpTo(_)
ParsedUpTo(k) ==
    IF k = 0 THEN <<>>
    ELSE IF ParseFloat(Data[k]).ok
         THEN Append(ParsedUpTo(k - 1), ParseFloat(Data[k]).v)
         ELSE ParsedUpTo(k - 1)

\* the parsed prices Analyze has been called with so far
Seen == IF pc = "new" THEN <<>> ELSE ParsedUpTo(idx - 1)

\* the last n elements of a sequence
LastN(q, n) == SubSeq(q, Len(q) - n + 1, Len(q))

Min(a, b) == IF a < b THEN a ELSE b

\* a step of the loop, whatever the observation
AnalyzeStep == pc = "loop" /\ idx <= Len(Data) /\ idx' = idx + 1

\* C16: while fewer than longPeriod prices have parsed every signal is Hold
C16_HoldUntilWindowFull ==
    (pc \in {"loop", "done"} /\ Len(Seen) < Strategy.LongPeriod) =>
      signal = HoldSignal

\* C16 witness: the observation that brought the history to exactly
\* longPeriod parsed prices, after an unparseable one, returned Buy
C16_Witness ==
    /\ pc = "loop"
    /\ Len(Seen) = Strategy.LongPeriod
    /\ idx - 1 > Strategy.LongPeriod
    /\ ~parseErr
    /\ signal = BuySignal

\* C17: Analyze of a price text that does not parse returns Hold and leaves
\* the price history and both averages as they were
C17_ParseFailureKeepsStrategy ==
    [][(AnalyzeStep /\ ~ParseFloat(Data[idx]).ok) =>
         /\ signal' = HoldSignal
         /\ Strategy'.PriceHistory = Strategy.PriceHistory
         /\ Strategy'.ShortSMA = Strategy.ShortSMA
         /\ Strategy'.LongSMA = Strategy.LongSMA]_vars

\* C17 witness: an unparseable text came after the averages were computed
C17_Witness ==
    /\ pc = "loop"
    /\ parseErr
    /\ signal = HoldSignal
    /\ Len(Strategy.PriceHistory) = Strategy.LongPeriod
    /\ FGt(Strategy.ShortSMA, Strategy.LongSMA)

\* C18: a text that parses to a negative or non-finite number is treated
\* like a parse failure: Hold, and the price history is unchanged
C18_NegativePriceRejected ==
    [][(/\ AnalyzeStep
        /\ ParseFloat(Data[idx]).ok
        /\ \/ ~IsFinite(ParseFloat(Data[idx]).v)
           \/ ParseFloat(Data[idx]).v.n < 0) =>
         /\ signal' = HoldSignal
         /\ Strategy'.PriceHistory = Strategy.PriceHistory]_vars

\* C19: the price history is the last min(n, longPeriod) parsed prices, in
\* the order observed
C19_HistoryIsWindowOfParsed ==
    pc \in {"loop", "done"} =>
      /\ Len(Strategy.PriceHistory) <= Strategy.LongPeriod
      /\ Strategy.PriceHistory =
           LastN(Seen, Min(Len(Seen), Strategy.LongPeriod))

\* C19 witness: more than longPeriod prices have parsed and the oldest one,
\* which differs from the newest, has been dropped
C19_Witness ==
    /\ pc = "loop"
    /\ Len(Seen) > Strategy.LongPeriod
    /\ Seen[1] # Seen[Len(Seen)]

\* the arithmetic mean of a non-empty sequence of float64
RECURSIVE SeqSum(_)
SeqSum(q) == IF Len(q) = 0 THEN F(0) ELSE FAdd(Head(q), SeqSum(Tail(q)))

Mean(q) == FDiv(SeqSum(q), F(Len(q)))

\* C20: with a full window the short SMA is the mean of the most recent
\* shortPeriod prices of the history and the long SMA the mean of the most
\* recent longPeriod prices
C20_AveragesOfTail ==
    (pc \in {"loop", "done"}
       /\ Len(Strategy.PriceHistory) = Strategy.LongPeriod) =>
      /\ Strategy.ShortSMA =
           Mean(LastN(Strategy.PriceHistory, Strategy.ShortPeriod))
      /\ Strategy.LongSMA =
           Mean(LastN(Strategy.PriceHistory, Strategy.LongPeriod))

\* C20 witness: a full window whose oldest prices average differently from
\* its newest
C20_Witness ==
    /\ pc = "loop"
    /\ Len(Strategy.PriceHistory) = Strategy.LongPeriod
    /\ Strategy.ShortSMA # Strategy.LongSMA
    /\ Mean(SubSeq(Strategy.PriceHistory, 1, Strategy.ShortPeriod)) #
         Strategy.ShortSMA

\* the last call of Analyze was made with a text that parsed and found a
\* full window
DecidedOnFullWindow ==
    /\ pc \in {"loop", "done"}
    /\ idx > 1
    /\ ParseFloat(Data[idx - 1]).ok
    /\ Len(Seen) >= Strategy.LongPeriod

\* the averages and the band edges, computed from the observations
SeenShort == Mean(LastN(Seen, Strategy.ShortPeriod))

SeenLong == Mean(LastN(Seen, Strategy.LongPeriod))

UpperEdge == FMul(SeenLong, FAdd(F(1), Strategy.Threshold))

LowerEdge == FMul(SeenLong, FSub(F(1), Strategy.Threshold))

\* C21: with a full window the signal is Buy iff the short average is
\* strictly above the upper edge, otherwise Sell iff it is strictly below the
\* lower edge, otherwise Hold; on an edge it is Hold, and the Buy and Sell
\* conditions never hold together
C21_StrictBandDecision ==
    DecidedOnFullWindow =>
      /\ (signal = BuySignal) <=> FGt(SeenShort, UpperEdge)
      /\ (signal = SellSignal) <=>
           (~FGt(SeenShort, UpperEdge) /\ FLt(SeenShort, LowerEdge))
      /\ (FEq(SeenShort, UpperEdge) \/ FEq(SeenShort, LowerEdge)) =>
           signal = HoldSignal
      /\ ~(FGt(SeenShort, UpperEdge) /\ FLt(SeenShort, LowerEdge))

\* C21 witness: with a threshold above 0 the short average sits exactly on
\* the upper edge of the band, away from the long average
C21_Witness ==
    /\ DecidedOnFullWindow
    /\ FGt(Strategy.Threshold, F(0))
    /\ FEq(SeenShort, UpperEdge)
    /\ FGt(SeenShort, SeenLong)
    /\ signal = HoldSignal

\* C22: with short 5, long 10, threshold 0.01 and the prices 100..110 fed in
\* order, observations 1 to 9 return Hold and observations 10 and 11 Buy
C22_UptrendScenario ==
    (Data = UptrendPrices /\ pc \in {"loop", "done"} /\ idx > 1) =>
      signal = (IF idx - 1 <= 9 THEN HoldSignal ELSE BuySignal)

\* C22 witness: the whole series has been fed and the 11th signal is Buy
C22_Witness ==
    /\ Data = UptrendPrices
    /\ pc = "done"
    /\ idx = 12
    /\ Len(Strategy.PriceHistory) = 10
    /\ signal = BuySignal

\* the observations fed so far
Fed == IF pc = "new" THEN <<>> ELSE SubSeq(Data, 1, idx - 1)

\* every price parsed so far is above 0
SeenPositive == \A i \in 1..Len(Seen) : FGt(Seen[i], F(0))

\* a valid configuration: short window shorter than the long one, and a
\* threshold that is not negative
ValidConfig ==
    /\ 0 < Strategy.ShortPeriod
    /\ Strategy.ShortPeriod < Strategy.LongPeriod
    /\ ~FLt(Strategy.Threshold, F(0))

Window == LastN(Seen, Min(Len(Seen), Strategy.LongPeriod))

\* every price of the window is positive and no price of it is above
\* another one times (1 + threshold)
WindowInBand ==
    \A i, j \in 1..Len(Window) :
       /\ FGt(Window[i], F(0))
       /\ ~FGt(Window[i], FMul(Window[j], FAdd(F(1), Strategy.Threshold)))

ParseableOf(q) == SelectSeq(q, LAMBDA t : ParseFloat(t).ok)

\* the strategy after a series of texts has been fed to it
RECURSIVE FeedAll(_, _)
FeedAll(m, q) ==
    IF Len(q) = 0 THEN m ELSE FeedAll(Analyze(m, Head(q)).ma, Tail(q))

\* a fresh strategy of the same configuration, fed the observations so far
\* with the unparseable ones removed
FedWithoutUnparseable ==
    FeedAll(NewMovingAverage([ShortPeriod |-> Strategy.ShortPeriod,
                              LongPeriod  |-> Strategy.LongPeriod,
                              Threshold   |-> Strategy.Threshold]),
            ParseableOf(Fed))

\* C26: a series with unparseable observations in it gives, on each of its
\* parseable observations, the signal and the strategy state that the same
\* series without the unparseable observations gives, and an unparseable
\* observation leaves that state as it is
C26_UnparseableInsertionsInvisible ==
    [][AnalyzeStep =>
         IF ParseFloat(Data[idx]).ok
         THEN /\ signal' = Analyze(FedWithoutUnparseable, Data[idx]).Type
              /\ Strategy' = Analyze(FedWithoutUnparseable, Data[idx]).ma
         ELSE Strategy' = FedWithoutUnparseable]_vars

\* C26 witness: an unparseable observation came between parseable ones and
\* the observation after it was answered Buy on a full window
C26_Witness ==
    /\ pc \in {"loop", "done"}
    /\ idx > 3
    /\ ParseFloat(Data[idx - 1]).ok
    /\ ~ParseFloat(Data[idx - 2]).ok
    /\ ParseFloat(Data[1]).ok
    /\ Len(Strategy.PriceHistory) = Strategy.LongPeriod
    /\ signal = BuySignal

\* the configuration a strategy was constructed from
ConfigOf(m) ==
    [ShortPeriod |-> m.ShortPeriod,
     LongPeriod  |-> m.LongPeriod,
     Threshold   |-> m.Threshold]

C28_InvalidParametersNeverRun ==
    [][(pc = "new" /\ pc' = "loop") =>
         /\ ~FLt(Strategy.Threshold, F(0))
         /\ ~FLt(CommissionRate, F(0))
         /\ FLt(CommissionRate, F(1))
         /\ FGt(InitialBalance, F(0))]_vars

\* the signal Analyze returns on observation k of the series
SignalAt(k) ==
    Analyze(FeedAll(NewMovingAverage(ConfigOf(Strategy)),
                    SubSeq(Data, 1, k - 1)),
            Data[k]).Type

\* Analyze returned Buy on some parseable observation of the series
BuyOnSomeObservation ==
    \E k \in 1..Len(Data) :
       ParseFloat(Data[k]).ok /\ SignalAt(k) = BuySignal

\* C29: with a positive initial balance and positive prices the returned
\* TotalTrades is above 0 iff Analyze returned Buy on some parseable
\* observation, and 0 otherwise
C29_TradesIffBuy ==
    (pc = "done" /\ FGt(InitialBalance, F(0)) /\ SeenPositive) =>
      /\ (result.TotalTrades > 0) <=> BuyOnSomeObservation
      /\ ~BuyOnSomeObservation => result.TotalTrades = 0

\* C29 witness: a run over positive prices with an unparseable text among
\* them returned trades after a Buy
C29_Witness ==
    /\ pc = "done"
    /\ SeenPositive
    /\ Len(Seen) < Len(Data)
    /\ BuyOnSomeObservation
    /\ result.TotalTrades > 0

\* the calls made by the step
CallsOfStep == SubSeq(events', Len(events) + 1, Len(events'))

\* how many of the calls of a sequence are of the kind
CountOf(q, kind) == Len(SelectSeq(q, LAMBDA e : e.kind = kind))

\* C30: in one trading cycle a failed fetch is followed by no call at all,
\* PlaceOrder is called exactly once iff the signal is not Hold, and
\* SaveOrder is called only right after a PlaceOrder that returned an order
C30_CycleCallOrder ==
    [][pc = "live" =>
         LET c == CallsOfStep
         IN  /\ Len(c) >= 1
             /\ c[1].kind = "GetMarketData"
             /\ c[1].out = "err" => Len(c) = 1
             /\ c[1].out = "ok" =>
                  /\ c[2].kind = "Analyze"
                  /\ CountOf(c, "PlaceOrder") =
                       (IF c[2].out # HoldSignal THEN 1 ELSE 0)
             /\ CountOf(c, "GetMarketData") = 1
             /\ CountOf(c, "Analyze") <= 1
             /\ CountOf(c, "SaveOrder") <= 1
             /\ \A i \in 1..Len(c) :
                  c[i].kind = "SaveOrder" =>
                    /\ i = 4
                    /\ c[3] = Call("PlaceOrder", "ok")]_vars

\* C30 witness: a cycle whose order was placed and saved came after a cycle
\* whose fetch failed
C30_Witness ==
    /\ pc = "live"
    /\ Len(events) >= 5
    /\ events[1] = Call("GetMarketData", "err")
    /\ events[Len(events) - 1] = Call("PlaceOrder", "ok")
    /\ events[Len(events)] = Call("SaveOrder", "ok")

\* the signal types of the orders the exchange accepted, oldest first
RECURSIVE PlacedOrdersOf(_)
PlacedOrdersOf(q) ==
    IF Len(q) < 2 THEN <<>>
    ELSE IF q[1].kind = "Analyze" /\ q[2] = Call("PlaceOrder", "ok")
         THEN <<q[1].out>> \o PlacedOrdersOf(Tail(q))
         ELSE PlacedOrdersOf(Tail(q))

PlacedOrders == PlacedOrdersOf(events)

\* C31: the live loop places no buy order while the previous buy order has
\* not been followed by a sell order, and no sell order after a sell order
C31_NoRepeatedOrderSide ==
    pc = "live" =>
      \A i \in 1..(Len(PlacedOrders) - 1) :
         PlacedOrders[i] # PlacedOrders[i + 1]

\* the order requests of the latest call of PlaceOrder
Attempts == SelectSeq(events, LAMBDA e : e.kind = "placeOrderInternal")

\* the latest call of PlaceOrder has returned
Returned == Len(events) > 0 /\ events[Len(events)].kind = "PlaceOrder"

\* C32: PlaceOrder makes at most maxRetries order requests; it returns the
\* order of the first request that succeeds and sends nothing after it, and
\* it returns an error when every request failed or a token refresh failed
C32_PlaceOrderBounded ==
    Returned =>
      /\ Len(Attempts) <= maxRetries
      /\ Len(Attempts) >= 1
      /\ \A i \in 1..(Len(events) - 1) :
           /\ events[i].kind = "placeOrderInternal" /\ events[i].out = "ok"
                => i = Len(events) - 1
           /\ events[i].kind = "refreshAuthToken" /\ events[i].out = "err"
                => i = Len(events) - 1
      /\ events[Len(events)].out =
           (IF Attempts[Len(Attempts)].out = "ok" THEN "ok" ELSE "err")
      /\ (\A i \in 1..Len(Attempts) : Attempts[i].out # "ok")
           => events[Len(events)].out = "err"

\* C32 witness: the third request succeeded, with a token obtained after the
\* first one was answered unauthorized
C32_Witness ==
    /\ Returned
    /\ Len(Attempts) = maxRetries
    /\ Attempts[1].out = "unauthorized"
    /\ Attempts[3].out = "ok"
    /\ Attempts[3].token # Attempts[1].token
    /\ events[Len(events)].out = "ok"

\* C33: at most one of the order requests of one call of PlaceOrder is
\* accepted by the broker
C33_AtMostOneOrderAccepted ==
    Returned =>
      Len(SelectSeq(Attempts, LAMBDA e : e.accepted)) <= 1

\* C34: after a request answered unauthorized and a token refresh that
\* returned without error, the next request carries a token obtained from
\* the broker after that answer
C34_RetryCarriesNewToken ==
    Returned =>
      \A i \in 1..(Len(events) - 1), j \in 1..(Len(events) - 1) :
         (/\ i < j
          /\ events[i].kind = "placeOrderInternal"
          /\ events[i].out = "unauthorized"
          /\ events[j].kind = "placeOrderInternal"
          /\ \A k \in (i + 1)..(j - 1) :
                events[k].kind # "placeOrderInternal") =>
           /\ events[j].token # events[i].token
           /\ \E k \in (i + 1)..(j - 1) :
                events[k].kind = "getAuthToken" /\ events[k].out = "ok"

\* the broker does not accept the token the exchange holds
TokenRejected == pc = "live" /\ exch.AuthToken \notin brokerTokens

\* the latest market data request was answered
LastFetchOk ==
    \E i \in 1..Len(events) :
       /\ events[i] = Call("GetMarketData", "ok")
       /\ \A j \in (i + 1)..Len(events) : events[j].kind # "GetMarketData"

StaleTokenStays ==
    [][TokenRejected => (TokenRejected' /\ exch'.AuthToken = exch.AuthToken)]_vars

\* C36: a second call of Run on the same Backtester returns the statistics
\* the first call returned
C36_RunRepeatable ==
    (pc = "done" /\ Len(Returns) = 1) => result = Returns[1].result

\* the texts of the last LongPeriod parseable observations so far
LastTexts == LastN(ParseableOf(Fed), Strategy.LongPeriod)

\* the signal a fresh strategy of the same configuration gives on the last
\* of LastTexts after being fed the ones before it and nothing else
SignalOfLastTexts ==
    Analyze(FeedAll(NewMovingAverage(ConfigOf(Strategy)),
                    SubSeq(LastTexts, 1, Len(LastTexts) - 1)),
            LastTexts[Len(LastTexts)]).Type

\* C37: once LongPeriod prices have been parsed, the signal of a parseable
\* observation is the signal of an instance of the same configuration that
\* has seen only the last LongPeriod parsed prices, whatever came before them
C37_SignalFromLastLongPeriod ==
    (/\ pc = "loop"
     /\ idx > 1
     /\ ParseFloat(Data[idx - 1]).ok
     /\ Len(Seen) >= Strategy.LongPeriod) =>
       signal = SignalOfLastTexts

\* C37 witness: a Buy on a full window with an earlier price, above every
\* price of the window, already dropped from it
C37_Witness ==
    /\ pc = "loop"
    /\ idx > 1
    /\ ParseFloat(Data[idx - 1]).ok
    /\ Len(Seen) > Strategy.LongPeriod
    /\ signal = BuySignal
    /\ \A i \in 1..Len(Window) : FGt(Seen[1], Window[i])

\* the closes of the run so far, by Sell or at the end of the series
Closes == SelectSeq(events, LAMBDA e : e.kind \in {"close", "forceclose"})

\* the percentage returns (exit - entry) / entry * 100 of the closes
Returns100 ==
    [i \in 1..Len(Closes) |->
       FMul(FDiv(FSub(Closes[i].price, Opens[i].price), Opens[i].price),
            F(100))]

\* C38: when Run has returned with at least one position closed and every
\* close at a profit above 0, WinRate is 1 and AverageProfitPerTrade is the
\* mean of the percentage returns of the closes
C38_AllWinningWinRateOne ==
    (/\ pc = "done"
     /\ Len(Closes) >= 1
     /\ result.WinningTrades = Len(Closes)
     /\ result.LosingTrades = 0) =>
       /\ FEq(result.WinRate, F(1))
       /\ FEq(result.AverageProfitPerTrade, Mean(Returns100))

====
